---- MODULE Spec2Model ----
(***************************************************************************)
(* Model of sync_translations.py: one invocation of main() after another   *)
(* over a small file system holding the webform template, the translations *)
(* file and its backup.                                                    *)
(*                                                                         *)
(* JSON values.  Field keys are numbered 1..NumKeys.  A label string is    *)
(* numbered 0..NumLabels-1, 0 being the empty string ""; JSON null (and    *)
(* Python None) is Null, distinct from every string.  A JSON object is a   *)
(* function on its keys; the empty object {} is << >>.  An object keeps    *)
(* its keys in file order; the model takes that order to be ascending.     *)
(*                                                                         *)
(* Files.  The content of a file is a record: kind "json" with the         *)
(* document it parses to and whether the text is pretty-printed the way    *)
(* json.dump(indent=2, ensure_ascii=False) prints it; "garbage" for text   *)
(* that is no JSON; "empty" for a file just truncated by open(.., 'w');    *)
(* "partial" for a prefix of a document; "absent" for no file.             *)
(***************************************************************************)
EXTENDS Integers, Sequences, FiniteSets, TLC

NumKeys == 2
NumLabels == 2

Null == -1

Keys == 1..NumKeys
Labels == 0..(NumLabels - 1)
Values == Labels \cup {Null}

EmptyDict == << >>

\* len(sys.argv) of an invocation: 3 is the only accepted count
ArgCounts == {2, 3, 4}

PartialMaps(K, V) == UNION {[D -> V] : D \in SUBSET K}

----------------------------------------------------------------------------
(* File contents, json.load and json.dump *)

NoText(k) == [kind |-> k, doc |-> EmptyDict, pretty |-> FALSE]
Absent == NoText("absent")
Garbage == NoText("garbage")
Empty == NoText("empty")
Partial == NoText("partial")

JsonText(d, p) == [kind |-> "json", doc |-> d, pretty |-> p]

\* json.load succeeds exactly on a complete JSON text
Parses(c) == c.kind = "json"
Loads(c) == c.doc
\* json.dump(doc, f, indent=2, ensure_ascii=False)
Dumps(d) == JsonText(d, TRUE)

Exists(c) == c.kind # "absent"

\* dict.get(key, default)
Get(d, k, default) == IF k \in DOMAIN d THEN d[k] ELSE default

\* d[k] = v on a dict
Put(d, k, v) == [x \in (DOMAIN d) \cup {k} |-> IF x = k THEN v ELSE d[x]]

----------------------------------------------------------------------------
(* The Sync Engine: lines 30-55 *)

\* A slip that leaves the structural check out.
FalsyNever(m) == FALSE
\* not en_us_translations: an empty mapping is falsy
Falsy(m) == DOMAIN m = {}

\* webform.get('formTranslations', {}).get('en-us', {})
EnUsOf(w) == Get(Get(w, "formTranslations", EmptyDict), "en-us", EmptyDict)

\* A slip that does not skip the keys the target lacks.
HasFieldNoSkip(tr, k) == "fields" \in DOMAIN tr
\* field_key in translations.get('fields', {})
HasField(tr, k) == k \in DOMAIN Get(tr, "fields", EmptyDict)

\* A slip that compares by truthiness: None and "" count as the same.
DiffersLoose(cur, label) ==
    (IF cur = Null THEN 0 ELSE cur) # (IF label = Null THEN 0 ELSE label)
\* A slip that overwrites without comparing.
DiffersAlways(cur, label) == TRUE
\* current_value != label_value
Differs(cur, label) == cur # label

\* A slip that records the update and leaves the working copy alone.
SetFieldForgotten(tr, k, v) == tr
\* translations['fields'][field_key] = label_value
SetField(tr, k, v) == [tr EXCEPT !["fields"] = Put(@, k, v)]

Update(k, old, new) == [field |-> k, old |-> old, new |-> new]

\* The for loop over en_us_translations.items(), from key k on; its result is
\* the working copy and the list of update records.
RECURSIVE SyncFrom(_, _, _, _)
SyncFrom(k, en, tr, ups) ==
    IF k > NumKeys THEN [translations |-> tr, updates |-> ups]
    ELSE IF k \notin DOMAIN en THEN SyncFrom(k + 1, en, tr, ups)
    ELSE IF ~HasField(tr, k) THEN SyncFrom(k + 1, en, tr, ups)
    ELSE LET current_value == Get(tr["fields"], k, Null)
             label_value == en[k]
         IN  IF Differs(current_value, label_value)
             THEN SyncFrom(k + 1, en, SetField(tr, k, label_value),
                           Append(ups, Update(k, current_value, label_value)))
             ELSE SyncFrom(k + 1, en, tr, ups)

\* A slip that writes whether or not there are updates.
HasUpdatesAlways(ups) == TRUE
\* if updates:
HasUpdates(ups) == Len(ups) > 0

\* A slip that takes a run without updates for a failure.
ExitCodePositive(n) == IF n > 0 THEN 0 ELSE 1
\* sys.exit(0 if updates >= 0 else 1)
ExitCode(n) == IF n >= 0 THEN 0 ELSE 1

----------------------------------------------------------------------------
(* State *)

VARIABLES
    fs,                  \* the file system: path -> content
    argc,                \* len(sys.argv) of the current invocation
    pc,                  \* where the current invocation stands
    webform,             \* sync_translations: the parsed template
    translations,        \* sync_translations: the working copy of the target
    en_us_translations,  \* sync_translations: the authoritative mapping
    updates,             \* sync_translations: the update records
    ret,                 \* << >>, or <<n>> once sync_translations returned n
    exitStatus,          \* << >>, or <<n>> once the process exited with n
    last,                \* where the invocation left off when it ended
    preFs,               \* history: the file system when the invocation began
    writes,              \* history: the paths opened for writing by it
    prevReturned         \* history: the invocation before this one returned
                         \* from sync_translations

vars == <<fs, argc, pc, webform, translations, en_us_translations, updates,
          ret, exitStatus, last, preFs, writes, prevReturned>>

Paths == {"webform", "translations", "backup"}

\* translations_path.parent / f"{stem}.backup{suffix}"
BackupPath == "backup"

\* The documents the files may hold at first.
EnUsMaps == PartialMaps(Keys, Labels)
FormTranslations == {EmptyDict} \cup {("en-us" :> m) : m \in EnUsMaps}
TemplateDocs == {EmptyDict} \cup {("formTranslations" :> ft) : ft \in FormTranslations}

Options == (1 :> 1)
OptionsOnly == ("options" :> Options)
\* The fields mapping may also hold a field the template never names.
ExtraKey == NumKeys + 1
FieldMaps ==
    PartialMaps(Keys, Values) \cup
    {(ExtraKey :> 1) @@ f : f \in PartialMaps(Keys, Values)}
TranslationDocs ==
    {OptionsOnly} \cup {("fields" :> f) @@ OptionsOnly : f \in FieldMaps}

WebformContents ==
    {Absent, Garbage} \cup {JsonText(d, FALSE) : d \in TemplateDocs}
TranslationsContents ==
    {Absent, Garbage} \cup {JsonText(d, FALSE) : d \in TranslationDocs}
BackupContents == {Absent, JsonText(OptionsOnly, FALSE)}

Running == pc \notin {"exited", "killed"}

\* A first invocation over files drawn from W, T and B.
InitOver(W, T, B) ==
    /\ fs \in {[p \in Paths |-> CASE p = "webform" -> w
                                  [] p = "translations" -> t
                                  [] OTHER -> b] :
                 w \in W, t \in T, b \in B}
    /\ argc \in ArgCounts
    /\ pc = "main"
    /\ webform = EmptyDict
    /\ translations = EmptyDict
    /\ en_us_translations = EmptyDict
    /\ updates = << >>
    /\ ret = << >>
    /\ exitStatus = << >>
    /\ last = "none"
    /\ preFs = fs
    /\ writes = {}
    /\ prevReturned = FALSE

Init == InitOver(WebformContents, TranslationsContents, BackupContents)

\* The first invocations with no backup file yet and no field but the
\* template's own in the target.
InitPlain ==
    InitOver(WebformContents,
             {t \in TranslationsContents :
                 ExtraKey \notin DOMAIN Get(t.doc, "fields", EmptyDict)},
             {Absent})

\* The process is gone: its memory with it.
Forget ==
    /\ webform' = EmptyDict
    /\ translations' = EmptyDict
    /\ en_us_translations' = EmptyDict
    /\ updates' = << >>

\* sys.exit(status)
Exit(status) ==
    /\ pc' = "exited"
    /\ last' = pc
    /\ exitStatus' = <<status>>
    /\ Forget

\* An exception leaves sync_translations for the handler of main.
Raise ==
    /\ pc' = "except"
    /\ UNCHANGED <<exitStatus, last>>

Locals == <<webform, translations, en_us_translations, updates>>
History == <<preFs, writes, prevReturned>>

----------------------------------------------------------------------------
(* main, lines 90-107 *)

CheckArgs ==
    /\ pc = "main"
    /\ IF argc # 3
       THEN Exit(1)
       ELSE /\ pc' = "exists_webform"
            /\ UNCHANGED <<Locals, exitStatus, last>>
    /\ UNCHANGED <<fs, argc, ret, History>>

ExistsWebform ==
    /\ pc = "exists_webform"
    /\ IF ~Exists(fs["webform"])
       THEN Exit(1)
       ELSE /\ pc' = "exists_translations"
            /\ UNCHANGED <<Locals, exitStatus, last>>
    /\ UNCHANGED <<fs, argc, ret, History>>

ExistsTranslations ==
    /\ pc = "exists_translations"
    /\ IF ~Exists(fs["translations"])
       THEN Exit(1)
       ELSE /\ pc' = "load_webform"
            /\ UNCHANGED <<Locals, exitStatus, last>>
    /\ UNCHANGED <<fs, argc, ret, History>>

----------------------------------------------------------------------------
(* sync_translations, lines 21-56 *)

LoadWebform ==
    /\ pc = "load_webform"
    /\ IF Parses(fs["webform"])
       THEN /\ webform' = Loads(fs["webform"])
            /\ pc' = "load_translations"
            /\ UNCHANGED <<exitStatus, last>>
       ELSE /\ Raise
            /\ UNCHANGED webform
    /\ UNCHANGED <<fs, argc, translations, en_us_translations, updates, ret,
                   History>>

LoadTranslations ==
    /\ pc = "load_translations"
    /\ IF Parses(fs["translations"])
       THEN /\ translations' = Loads(fs["translations"])
            /\ pc' = "extract"
            /\ UNCHANGED <<exitStatus, last>>
       ELSE /\ Raise
            /\ UNCHANGED translations
    /\ UNCHANGED <<fs, argc, webform, en_us_translations, updates, ret,
                   History>>

ExtractEnUs ==
    /\ pc = "extract"
    /\ en_us_translations' = EnUsOf(webform)
    /\ IF Falsy(en_us_translations')
       THEN /\ ret' = <<-1>>
            /\ pc' = "returned"
       ELSE /\ pc' = "sync"
            /\ UNCHANGED ret
    /\ UNCHANGED <<fs, argc, webform, translations, updates, exitStatus,
                   last, History>>

SyncLoop ==
    /\ pc = "sync"
    /\ LET r == SyncFrom(1, en_us_translations, translations, << >>)
       IN  /\ translations' = r.translations
           /\ updates' = r.updates
    /\ pc' = "report"
    /\ UNCHANGED <<fs, argc, webform, en_us_translations, ret, exitStatus,
                   last, History>>

----------------------------------------------------------------------------
(* sync_translations, the write phase and the return: lines 57-87 *)

Report ==
    /\ pc = "report"
    /\ IF HasUpdates(updates)
       THEN /\ pc' = "open_backup"
            /\ UNCHANGED ret
       ELSE /\ ret' = <<Len(updates)>>
            /\ pc' = "returned"
    /\ UNCHANGED <<fs, argc, Locals, exitStatus, last, History>>

\* A slip that opens both files for writing at once.
OpenBackupAndTarget ==
    /\ pc = "open_backup"
    /\ fs' = [fs EXCEPT ![BackupPath] = Empty, !["translations"] = Empty]
    /\ writes' = writes \cup {BackupPath, "translations"}
    /\ pc' = "dump_backup"
    /\ UNCHANGED <<argc, Locals, ret, exitStatus, last, preFs, prevReturned>>

\* with open(backup_path, 'w', encoding='utf-8') as f:
OpenBackup ==
    /\ pc = "open_backup"
    /\ fs' = [fs EXCEPT ![BackupPath] = Empty]
    /\ writes' = writes \cup {BackupPath}
    /\ pc' = "dump_backup"
    /\ UNCHANGED <<argc, Locals, ret, exitStatus, last, preFs, prevReturned>>

\* A slip that backs up the working copy.
BackupOfWorkingCopy == translations
\* json.load(open(translations_path, 'r', encoding='utf-8'))
BackupDocument == Loads(fs["translations"])

\* json.dump(<the target, read again>, f, ...) and the end of the with block
DumpBackup ==
    /\ pc = "dump_backup"
    /\ IF Parses(fs["translations"])
       THEN /\ fs' = [fs EXCEPT ![BackupPath] = Dumps(BackupDocument)]
            /\ pc' = "open_target"
            /\ UNCHANGED <<exitStatus, last>>
       ELSE /\ Raise
            /\ UNCHANGED fs
    /\ UNCHANGED <<argc, Locals, ret, History>>

\* with open(translations_path, 'w', encoding='utf-8') as f:
OpenTarget ==
    /\ pc = "open_target"
    /\ fs' = [fs EXCEPT !["translations"] = Empty]
    /\ writes' = writes \cup {"translations"}
    /\ pc' = "dump_target"
    /\ UNCHANGED <<argc, Locals, ret, exitStatus, last, preFs, prevReturned>>

\* json.dump(translations, f, ...), the end of the with block, and
\* return len(updates)
DumpTarget ==
    /\ pc = "dump_target"
    /\ fs' = [fs EXCEPT !["translations"] = Dumps(translations)]
    /\ ret' = <<Len(updates)>>
    /\ pc' = "returned"
    /\ UNCHANGED <<argc, Locals, exitStatus, last, History>>

----------------------------------------------------------------------------
(* main, lines 109-119 *)

\* sys.exit(0 if updates >= 0 else 1)
MainExit ==
    /\ pc = "returned"
    /\ Exit(ExitCode(ret[1]))
    /\ UNCHANGED <<fs, argc, ret, History>>

\* except Exception as e: ... sys.exit(1)
ExceptHandler ==
    /\ pc = "except"
    /\ Exit(1)
    /\ UNCHANGED <<fs, argc, ret, History>>

----------------------------------------------------------------------------
(* The environment: I/O errors, termination by the operator, another run *)

\* The file a json.dump is writing at pc.
InFlight(at) == IF at = "dump_backup" THEN {BackupPath}
                ELSE IF at = "dump_target" THEN {"translations"}
                ELSE {}

\* What a write that does not finish may leave of the file it was writing:
\* nothing yet, or a prefix of the document.
Torn(f, at) ==
    IF InFlight(at) = {} THEN {f}
    ELSE {[f EXCEPT ![p] = c] : p \in InFlight(at), c \in {Empty, Partial}}

\* open(path, 'r') or the read fails
ReadFails ==
    /\ pc \in {"load_webform", "load_translations"}
    /\ Raise
    /\ UNCHANGED <<fs, argc, Locals, ret, History>>

\* open(path, 'w') fails: the file is left as it was
OpenFails ==
    /\ pc \in {"open_backup", "open_target"}
    /\ Raise
    /\ UNCHANGED <<fs, argc, Locals, ret, History>>

\* the write fails (disk full, ...) while json.dump is under way
WriteFails ==
    /\ pc \in {"dump_backup", "dump_target"}
    /\ fs' \in Torn(fs, pc)
    /\ Raise
    /\ UNCHANGED <<argc, Locals, ret, History>>

\* the operator terminates the process
Kill ==
    /\ Running
    /\ fs' \in Torn(fs, pc)
    /\ pc' = "killed"
    /\ last' = pc
    /\ Forget
    /\ UNCHANGED <<argc, ret, exitStatus, History>>

\* the operator runs the program again on the same paths
Invoke ==
    /\ ~Running
    /\ argc' \in ArgCounts
    /\ pc' = "main"
    /\ ret' = << >>
    /\ exitStatus' = << >>
    /\ last' = "none"
    /\ preFs' = fs
    /\ writes' = {}
    /\ prevReturned' = (pc = "exited" /\ last = "returned")
    /\ UNCHANGED <<fs, Locals>>

\* The steps of the program itself.
Step ==
    \/ CheckArgs
    \/ ExistsWebform
    \/ ExistsTranslations
    \/ LoadWebform
    \/ LoadTranslations
    \/ ExtractEnUs
    \/ SyncLoop
    \/ Report
    \/ OpenBackup
    \/ DumpBackup
    \/ OpenTarget
    \/ DumpTarget
    \/ MainExit
    \/ ExceptHandler

Next ==
    \/ Step
    \/ ReadFails
    \/ OpenFails
    \/ WriteFails
    \/ Kill
    \/ Invoke

Spec == Init /\ [][Next]_vars

\* A process that is not terminated takes its next step.
FairSpec == InitPlain /\ [][Next]_vars /\ WF_vars(Step)

----------------------------------------------------------------------------
(* What a run found when it began, read off the files themselves *)

PreWebform == Loads(preFs["webform"])
PreDoc == Loads(preFs["translations"])
PreEn == Get(Get(PreWebform, "formTranslations", EmptyDict), "en-us", EmptyDict)
PreFields == Get(PreDoc, "fields", EmptyDict)
PostDoc == Loads(fs["translations"])
PostFields == Get(PostDoc, "fields", EmptyDict)

\* the keys of both mappings, and those of them whose values differ
Shared == (DOMAIN PreEn) \cap (DOMAIN PreFields)
Stale == {k \in Shared : PreFields[k] # PreEn[k]}

\* sync_translations has returned (main has not exited yet)
Returned == pc = "returned"
\* ... past the structural check
Completed == Returned /\ ret[1] >= 0
\* the loop is over and its results are in the locals
Synced ==
    \/ pc \in {"report", "open_backup", "dump_backup", "open_target",
               "dump_target"}
    \/ Completed

UpdatedKeys == {updates[i].field : i \in 1..Len(updates)}

----------------------------------------------------------------------------
(* The claims *)

\* C1: with a non-empty en-us mapping, an update is recorded for key k, and
\* fields[k] of the working copy overwritten with the label, if and only if
\* k is a key of both mappings and the two values before the run differ
\* (null differs from every label); each such key is recorded once, with
\* the old and the new value, and the count returned is their number.
C1_UpdateIffStale ==
    Synced =>
        /\ UpdatedKeys = Stale
        /\ Len(updates) = Cardinality(Stale)
        /\ \A i \in 1..Len(updates) :
              /\ updates[i].old = PreFields[updates[i].field]
              /\ updates[i].new = PreEn[updates[i].field]
        /\ \A k \in DOMAIN PreFields :
              Get(translations, "fields", EmptyDict)[k] =
                  (IF k \in Stale THEN PreEn[k] ELSE PreFields[k])
        /\ Returned => ret[1] = Cardinality(Stale)

C1_Witness ==
    /\ Completed
    /\ \E k \in Stale : PreFields[k] = Null /\ PreEn[k] = 0
    /\ Shared \ Stale # {}

\* C2: after a run that completes on a non-empty en-us mapping, the target
\* file holds the en-us value at every key of both mappings, whatever it
\* held before, the file rewritten or not.
C2_OverwriteDirection ==
    Completed =>
        /\ Parses(fs["translations"])
        /\ \A k \in Shared : k \in DOMAIN PostFields /\ PostFields[k] = PreEn[k]

C2_Witness ==
    /\ Completed
    /\ \E k \in Stale : PreFields[k] \in Labels
    /\ Shared \ Stale # {}

\* C3: a run that returns leaves the target document as it was except at
\* fields[k] for k a key of both mappings: the same sections, every section
\* but fields equal, the same keys of fields, and the value kept at every
\* key the en-us mapping lacks.
C3_Frame ==
    Returned =>
        /\ Parses(fs["translations"])
        /\ DOMAIN PostDoc = DOMAIN PreDoc
        /\ \A s \in DOMAIN PreDoc \ {"fields"} : PostDoc[s] = PreDoc[s]
        /\ DOMAIN PostFields = DOMAIN PreFields
        /\ \A k \in DOMAIN PreFields \ Shared : PostFields[k] = PreFields[k]

C3_Witness ==
    /\ Completed
    /\ "translations" \in writes
    /\ (DOMAIN PreEn) \ (DOMAIN PreFields) # {}
    /\ (DOMAIN PreFields) \ (DOMAIN PreEn) # {}

\* C4, as stated: if the run before returned, this run on the same paths
\* returns zero, writes nothing and leaves the target file as it was.
C4_AsStated ==
    (Returned /\ prevReturned) =>
        /\ ret = <<0>>
        /\ writes = {}
        /\ fs["translations"] = preFs["translations"]

\* C4, amended: if the run before returned, this run writes nothing and
\* leaves every file as it was; it returns zero when the en-us mapping is
\* non-empty, and -1 when it is missing or empty.
C4_Idempotent ==
    (Returned /\ prevReturned) =>
        /\ ret = (IF DOMAIN PreEn = {} THEN <<-1>> ELSE <<0>>)
        /\ writes = {}
        /\ fs = preFs

C4_Witness ==
    /\ Returned
    /\ prevReturned
    /\ ret = <<0>>
    /\ preFs["translations"].pretty
    /\ preFs["backup"].pretty

\* C5: when a run finds an update and completes, the backup file parses to
\* the document the target file held before the run, whether or not a
\* backup file was there already.
C5_BackupFidelity ==
    (Completed /\ ret[1] > 0) =>
        /\ Parses(fs[BackupPath])
        /\ Loads(fs[BackupPath]) = PreDoc

C5_Witness ==
    /\ Completed
    /\ ret[1] > 0
    /\ Parses(preFs[BackupPath])
    /\ Loads(preFs[BackupPath]) # PreDoc

\* C6, as stated: when the two mappings agree on every shared key, the run
\* returns zero and no file is written.
C6_AsStated ==
    (Returned /\ Stale = {}) =>
        /\ ret = <<0>>
        /\ writes = {}
        /\ fs = preFs

\* C6, amended: when the en-us mapping is non-empty and agrees with the
\* fields mapping on every shared key, the run returns zero and no file is
\* written: no backup created or overwritten, the target as it was.
C6_NoOp ==
    (Returned /\ DOMAIN PreEn # {} /\ Stale = {}) =>
        /\ ret = <<0>>
        /\ writes = {}
        /\ fs = preFs

C6_Witness ==
    /\ Returned
    /\ ~prevReturned
    /\ Shared # {}
    /\ Stale = {}
    /\ (DOMAIN PreEn) \ Shared # {}

\* C7: when the template has no en-us entry or an empty one, the run writes
\* no file and returns -1, and the process exits with 1; a run that returns
\* zero exits with 0.
C7_StructuralFailure ==
    /\ (Returned /\ DOMAIN PreEn = {}) =>
          /\ ret = <<-1>>
          /\ writes = {}
          /\ fs = preFs
    /\ (pc = "exited" /\ last = "returned") =>
          /\ DOMAIN PreEn = {} => (ret = <<-1>> /\ exitStatus = <<1>> /\ fs = preFs)
          /\ ret = <<0>> => exitStatus = <<0>>

C7_Witness ==
    /\ pc = "exited"
    /\ last = "returned"
    /\ "formTranslations" \in DOMAIN PreWebform
    /\ ret = <<-1>>
    /\ exitStatus = <<1>>
    /\ Parses(preFs["translations"])

\* the cases of an exit
Succeeded == last = "returned" /\ DOMAIN PreEn # {}

ExitStatusRight ==
    pc = "exited" =>
        /\ exitStatus \in {<<0>>, <<1>>}
        /\ exitStatus = <<0>> <=> Succeeded
        /\ Succeeded =>
              /\ argc = 3
              /\ Parses(preFs["webform"])
              /\ Parses(preFs["translations"])
        /\ argc # 3 => exitStatus = <<1>>
        /\ ~Exists(preFs["webform"]) => exitStatus = <<1>>
        /\ ~Exists(preFs["translations"]) => exitStatus = <<1>>
        /\ last = "except" => exitStatus = <<1>>

\* C8: a run of main that is not terminated from outside ends with an exit
\* status; the status is 0 exactly when both files were loaded, the en-us
\* mapping was non-empty and sync_translations returned, and 1 for a wrong
\* argument count, a missing path, a structural error and an exception.
C8_ExitStatus == [](ExitStatusRight) /\ (Running ~> ~Running)

C8_Witness ==
    /\ pc = "exited"
    /\ last = "except"
    /\ exitStatus = <<1>>
    /\ fs[BackupPath] = Partial

\* C9: in every state of a run the target file holds its complete content
\* of before the run or the complete updated document.
C9_NeverPartial ==
    \/ fs["translations"] = preFs["translations"]
    \/ /\ Parses(fs["translations"])
       /\ PostDoc = SyncFrom(1, PreEn, PreDoc, << >>).translations

\* C10: the backup is complete before the write to the target begins:
\* whenever the target file differs from its content of before the run, the
\* backup file holds that content; a run terminated between the two writes
\* leaves the backup in place and the target as it was.
C10_BackupFirst ==
    /\ fs["translations"] # preFs["translations"] =>
          /\ Parses(fs[BackupPath])
          /\ Loads(fs[BackupPath]) = PreDoc
    /\ (pc = "killed" /\ last = "open_target") =>
          /\ Parses(fs[BackupPath])
          /\ Loads(fs[BackupPath]) = PreDoc
          /\ fs["translations"] = preFs["translations"]

C10_Witness ==
    /\ pc = "killed"
    /\ last = "dump_target"
    /\ fs["translations"] = Partial
    /\ preFs[BackupPath] = Absent

====
